---- MODULE Spec2Model ----
(***************************************************************************)
(* Model of src/app.py: the lab-report extractor                           *)
(* (extract_lab_values_simple), the gene predictor (predict_genetic_risks) *)
(* and the batch "Run AI Genetic Risk Analysis" handler of the page.       *)
(*                                                                         *)
(* Text is a sequence of one-character strings, so that the regular        *)
(* expressions of the source are modelled by what they match, character    *)
(* by character.  A float is modelled as an exact decimal [m, e] meaning   *)
(* m / 10^e with trailing zeros removed (the sampled captures are short,   *)
(* so the decimal and the IEEE double it stands for determine each other). *)
(***************************************************************************)
EXTENDS Integers, Sequences, FiniteSets, TLC

\* ------------------------------------------------------------------ bounds
MaxParts == 4      \* fragments per sampled input text
MaxFiles == 3      \* documents in one upload
MaxRows == 2       \* rows of a sampled data frame handed to the predictor

\* -------------------------------------------------------------- characters
\* the characters \s matches, of those a sampled text can hold
WhitespaceChars == {" ", "\t", "\n", "\r", "\f"}

IsSpace(c) == c \in WhitespaceChars

DigitChars == <<"0", "1", "2", "3", "4", "5", "6", "7", "8", "9">>

DigitOf == [c \in {DigitChars[i] : i \in 1..10} |->
              (CHOOSE i \in 1..10 : DigitChars[i] = c) - 1]

IsDigit(c) == c \in DOMAIN DigitOf

\* the character class [\d.]
IsNumChar(c) == IsDigit(c) \/ c = "."

UpperChars == <<"A", "B", "C", "D", "E", "F", "G", "H", "I", "J", "K", "L", "M",
                "N", "O", "P", "Q", "R", "S", "T", "U", "V", "W", "X", "Y", "Z">>

LowerChars == <<"a", "b", "c", "d", "e", "f", "g", "h", "i", "j", "k", "l", "m",
                "n", "o", "p", "q", "r", "s", "t", "u", "v", "w", "x", "y", "z">>

LowerOf == [c \in {UpperChars[i] : i \in 1..26} |->
              LowerChars[CHOOSE i \in 1..26 : UpperChars[i] = c]]

\* case folding used by re.IGNORECASE
Lower(c) == IF c \in DOMAIN LowerOf THEN LowerOf[c] ELSE c

Min(S) == CHOOSE x \in S : \A y \in S : x <= y

Max(S) == CHOOSE x \in S : \A y \in S : x >= y

\* ------------------------------------------------------ text normalisation
RECURSIVE NormalizeRange(_, _, _)
\* the characters lo..hi of t after the substitution: a whitespace character
\* that starts a run becomes a space, one that continues a run disappears
NormalizeRange(t, lo, hi) ==
    IF lo > hi THEN <<>>
    ELSE IF lo = hi
         THEN IF ~IsSpace(t[lo]) THEN <<t[lo]>>
              ELSE IF lo > 1 /\ IsSpace(t[lo-1]) THEN <<>> ELSE <<" ">>
         ELSE LET mid == (lo + hi) \div 2
              IN NormalizeRange(t, lo, mid) \o NormalizeRange(t, mid + 1, hi)

\* erroneous variant: every whitespace character becomes a space, runs are kept
NormalizeNoCollapse(t) ==
    [i \in 1..Len(t) |-> IF IsSpace(t[i]) THEN " " ELSE t[i]]

\* re.sub(r'\s+', ' ', text): every maximal run of whitespace becomes one space
Normalize(t) == NormalizeRange(t, 1, Len(t))

\* ------------------------------------------------------------ regex pieces
\* the literal lit (already lower-cased when ci) matches text at position i
MatchLiteralAt(t, i, lit, ci) ==
    /\ i + Len(lit) - 1 <= Len(t)
    /\ \A k \in 1..Len(lit) :
          (IF ci THEN Lower(t[i+k-1]) ELSE t[i+k-1]) = lit[k]

\* end (exclusive) of the maximal run of whitespace starting at i
SpaceEnd(t, i) ==
    LET S == {j \in i..Len(t) : ~IsSpace(t[j])}
    IN IF S = {} THEN Len(t) + 1 ELSE Min(S)

\* end (exclusive) of the maximal run of [\d.] starting at i
NumEnd(t, i) ==
    LET S == {j \in i..Len(t) : ~IsNumChar(t[j])}
    IN IF S = {} THEN Len(t) + 1 ELSE Min(S)

NoMatch == [found |-> FALSE, group1 |-> <<>>]

\* re.search(label + r'\s+([\d.]+)', text, re.IGNORECASE): leftmost match
SearchValue(t, label) ==
    LET Cap(i) == LET b == SpaceEnd(t, i + Len(label))
                  IN [from |-> b, to |-> NumEnd(t, b)]
        Hits == {i \in 1..Len(t) :
                   /\ MatchLiteralAt(t, i, label, TRUE)
                   /\ Cap(i).from > i + Len(label)
                   /\ Cap(i).to > Cap(i).from}
    IN IF Hits = {} THEN NoMatch
       ELSE LET c == Cap(Min(Hits))
            IN [found |-> TRUE, group1 |-> SubSeq(t, c.from, c.to - 1)]

\* the capture at j of ([\d.]+)\s*unit, or 0 when it does not match there
UnitTailAt(t, j, unit) ==
    IF j <= Len(t) /\ IsNumChar(t[j])
       /\ MatchLiteralAt(t, SpaceEnd(t, NumEnd(t, j)), unit, TRUE)
    THEN NumEnd(t, j) ELSE 0

\* erroneous variant: greedy '.*' in place of the lazy '.*?'
SearchLazyUnitGreedy(t, label, unit) ==
    LET Starts(i) == {j \in (i + Len(label))..Len(t) :
                        /\ \A k \in (i + Len(label))..(j-1) : t[k] # "\n"
                        /\ UnitTailAt(t, j, unit) # 0}
        Hits == {i \in 1..Len(t) :
                   MatchLiteralAt(t, i, label, TRUE) /\ Starts(i) # {}}
    IN IF Hits = {} THEN NoMatch
       ELSE LET j == Max(Starts(Min(Hits)))
            IN [found |-> TRUE, group1 |-> SubSeq(t, j, UnitTailAt(t, j, unit) - 1)]

\* re.search(label + r'.*?([\d.]+)\s*' + unit, text, re.IGNORECASE):
\* leftmost label, then the nearest number that is followed by the unit
SearchLazyUnit(t, label, unit) ==
    LET Starts(i) == {j \in (i + Len(label))..Len(t) :
                        /\ \A k \in (i + Len(label))..(j-1) : t[k] # "\n"
                        /\ UnitTailAt(t, j, unit) # 0}
        Hits == {i \in 1..Len(t) :
                   MatchLiteralAt(t, i, label, TRUE) /\ Starts(i) # {}}
    IN IF Hits = {} THEN NoMatch
       ELSE LET j == Min(Starts(Min(Hits)))
            IN [found |-> TRUE, group1 |-> SubSeq(t, j, UnitTailAt(t, j, unit) - 1)]

ReceivedOn == <<"R","e","c","e","i","v","e","d"," ","O","n">>

\* \d{2}/\d{2}/\d{4} matches at c
DateTokenAt(t, c) ==
    /\ c + 9 <= Len(t)
    /\ \A k \in {0, 1, 3, 4, 6, 7, 8, 9} : IsDigit(t[c+k])
    /\ t[c+2] = "/"
    /\ t[c+5] = "/"

\* re.search(r'Received On\s*:\s*(\d{2}/\d{2}/\d{4})', text): case-sensitive
SearchDate(t) ==
    LET Colon(i) == SpaceEnd(t, i + Len(ReceivedOn))
        Tok(i) == SpaceEnd(t, Colon(i) + 1)
        Hits == {i \in 1..Len(t) :
                   /\ MatchLiteralAt(t, i, ReceivedOn, FALSE)
                   /\ Colon(i) <= Len(t)
                   /\ t[Colon(i)] = ":"
                   /\ DateTokenAt(t, Tok(i))}
    IN IF Hits = {} THEN NoMatch
       ELSE LET c == Tok(Min(Hits))
            IN [found |-> TRUE, group1 |-> SubSeq(t, c, c + 9)]

\* ------------------------------------------------------------- conversions
RECURSIVE Pow10(_)
Pow10(n) == IF n = 0 THEN 1 ELSE 10 * Pow10(n - 1)

RECURSIVE Dec(_, _)
\* the number m / 10^e, in the form without trailing decimal zeros
Dec(m, e) == IF e > 0 /\ m % 10 = 0 THEN Dec(m \div 10, e - 1)
             ELSE [m |-> m, e |-> e]

\* a <= b on decimals
DecLeq(a, b) == a.m * Pow10(b.e) <= b.m * Pow10(a.e)

\* the integer written by the digits of s, other characters skipped
DigitsValue(s) ==
    LET F[i \in 0..Len(s)] ==
          IF i = 0 THEN 0
          ELSE IF IsDigit(s[i]) THEN 10 * F[i-1] + DigitOf[s[i]] ELSE F[i-1]
    IN F[Len(s)]

\* float(s) for s in [\d.]+ : ValueError unless one digit at least and one
\* dot at most
ParseFloat(s) ==
    LET dots == {i \in 1..Len(s) : s[i] = "."}
        digits == {i \in 1..Len(s) : IsDigit(s[i])}
    IN IF Cardinality(dots) > 1 \/ digits = {}
       THEN [ok |-> FALSE, value |-> Dec(0, 0)]
       ELSE [ok |-> TRUE,
             value |-> Dec(DigitsValue(s),
                           IF dots = {} THEN 0
                           ELSE Len(s) - (CHOOSE i \in dots : TRUE))]

DaysInMonth(y, m) ==
    IF m \in {4, 6, 9, 11} THEN 30
    ELSE IF m = 2
         THEN (IF (y % 4 = 0 /\ y % 100 # 0) \/ y % 400 = 0 THEN 29 ELSE 28)
         ELSE 31

\* erroneous variant: the token is read month/day/year
ParseDateMonthFirst(s) ==
    LET m == DigitsValue(SubSeq(s, 1, 2))
        d == DigitsValue(SubSeq(s, 4, 5))
        y == DigitsValue(SubSeq(s, 7, 10))
    IN IF y >= 1 /\ m \in 1..12 /\ d >= 1 /\ d <= DaysInMonth(y, m)
       THEN [ok |-> TRUE, value |-> [y |-> y, m |-> m, d |-> d]]
       ELSE [ok |-> FALSE, value |-> [y |-> 0, m |-> 0, d |-> 0]]

\* pd.to_datetime(s, format='%d/%m/%Y') for s matching \d{2}/\d{2}/\d{4}:
\* fails unless the token is a calendar date (the sampled years lie inside
\* the range of a Timestamp)
ParseDate(s) ==
    LET d == DigitsValue(SubSeq(s, 1, 2))
        m == DigitsValue(SubSeq(s, 4, 5))
        y == DigitsValue(SubSeq(s, 7, 10))
    IN IF y >= 1 /\ m \in 1..12 /\ d >= 1 /\ d <= DaysInMonth(y, m)
       THEN [ok |-> TRUE, value |-> [y |-> y, m |-> m, d |-> d]]
       ELSE [ok |-> FALSE, value |-> [y |-> 0, m |-> 0, d |-> 0]]

\* ------------------------------------------------------- pattern registry
ValueRule(label) == [kind |-> "value", label |-> label, unit |-> <<>>]

\* test_patterns: every label is followed by \s+([\d.]+), except Glucose,
\* whose number is the nearest one followed by mg/dL.  Labels are matched
\* with re.IGNORECASE and are written here in lower case.
test_patterns ==
    [HbA1c |-> ValueRule(<<"h","b","a","1","c">>),
     Glucose |-> [kind |-> "lazy_unit",
                  label |-> <<"g","l","u","c","o","s","e">>,
                  unit |-> <<"m","g","/","d","l">>],
     Hb |-> ValueRule(<<"h","e","m","o","g","l","o","b","i","n">>),
     WBC |-> ValueRule(<<"w","b","c","/","t","l","c">>),
     Platelet |-> ValueRule(<<"p","l","a","t","e","l","e","t"," ","c","o","u","n","t">>),
     ALT |-> ValueRule(<<"s","g","p","t"," ","-"," ","a","l","t">>),
     AST |-> ValueRule(<<"s","g","o","t"," ","-"," ","a","s","t">>),
     ESR |-> ValueRule(<<"e",".","s",".","r",".">>),
     Calcium |-> ValueRule(<<"s","e","r","u","m"," ","c","a","l","c","i","u","m">>),
     Creatinine |-> ValueRule(<<"c","r","e","a","t","i","n","i","n","e">>),
     Urea |-> ValueRule(<<"u","r","e","a">>),
     Albumin |-> ValueRule(<<"a","l","b","u","m","i","n">>),
     Bilirubin |-> ValueRule(<<"t","o","t","a","l"," ","b","i","l","i","r","u","b","i","n">>),
     ALP |-> ValueRule(<<"s","e","r","u","m"," ","a","l","k","a","l","i","n","e"," ",
                         "p","h","o","s","p","h","a","t","a","s","e"," ","-"," ","a","l","p">>),
     Cholesterol |-> ValueRule(<<"c","h","o","l","e","s","t","e","r","o","l">>)]

\* erroneous variant: a name without an entry gets a rule made of its own name
RulesForGeneric(test) ==
    IF test \in DOMAIN test_patterns THEN <<test_patterns[test]>>
    ELSE IF test = "LDL" THEN <<ValueRule(<<"l","d","l">>)>>
    ELSE <<>>

\* 'if test in test_patterns: pattern = test_patterns[test]': the rules tried
\* for a requested name, none for a name without an entry
RulesFor(test) ==
    IF test \in DOMAIN test_patterns THEN <<test_patterns[test]>> ELSE <<>>

\* re.search(pattern, text, re.IGNORECASE) for one rule of the registry
SearchRule(t, rule) ==
    IF rule.kind = "lazy_unit" THEN SearchLazyUnit(t, rule.label, rule.unit)
    ELSE SearchValue(t, rule.label)

\* ---------------------------------------------------------------- records
Put(d, k, v) == [x \in DOMAIN d \cup {k} |-> IF x = k THEN v ELSE d[x]]

EmptyDict == [x \in {} |-> 0]

\* the progress of a call: the dict built so far, and whether an exception
\* has left the function
Running(d) == [raised |-> FALSE, lab_data |-> d]

\* erroneous variant: the ValueError is not caught
StoreValueUncaught(acc, test, group1) ==
    IF ParseFloat(group1).ok
    THEN Running(Put(acc.lab_data, test, ParseFloat(group1).value))
    ELSE [raised |-> TRUE, lab_data |-> acc.lab_data]

\* erroneous variant: the capture that is no number is kept as text
StoreValueRaw(acc, test, group1) ==
    IF ParseFloat(group1).ok
    THEN Running(Put(acc.lab_data, test, ParseFloat(group1).value))
    ELSE Running(Put(acc.lab_data, test, [raw |-> group1]))

\* try: lab_data[test] = float(match.group(1))  except ValueError: pass
StoreValue(acc, test, group1) ==
    IF ParseFloat(group1).ok
    THEN Running(Put(acc.lab_data, test, ParseFloat(group1).value))
    ELSE acc

\* erroneous variant: a field that is not found is stored as 0
ExtractFieldPlaceholder(acc, t, test) ==
    IF acc.raised THEN acc
    ELSE IF RulesFor(test) = <<>> \/ ~SearchRule(t, RulesFor(test)[1]).found
         THEN Running(Put(acc.lab_data, test, Dec(0, 0)))
         ELSE StoreValue(acc, test, SearchRule(t, RulesFor(test)[1]).group1)

\* one round of 'for test in tests' over the normalised text t
ExtractField(acc, t, test) ==
    IF acc.raised \/ RulesFor(test) = <<>> THEN acc
    ELSE LET match == SearchRule(t, RulesFor(test)[1])
         IN IF match.found THEN StoreValue(acc, test, match.group1) ELSE acc

\* the date block: the labelled date if it parses, a bare 'except: pass' if not
ExtractDate(acc, t) ==
    IF acc.raised THEN acc
    ELSE LET date_match == SearchDate(t)
         IN IF date_match.found /\ ParseDate(date_match.group1).ok
            THEN Running(Put(acc.lab_data, "Date", ParseDate(date_match.group1).value))
            ELSE acc

RECURSIVE ExtractFields(_, _, _, _)
\* the loop 'for test in tests', from the i-th requested name on
ExtractFields(acc, t, tests_, i) ==
    IF i > Len(tests_) THEN acc
    ELSE ExtractFields(ExtractField(acc, t, tests_[i]), t, tests_, i + 1)

\* extract_lab_values_simple(text, tests)
extract_lab_values_simple(text_, tests_) ==
    LET t == Normalize(text_)
    IN ExtractDate(ExtractFields(Running(EmptyDict), t, tests_, 1), t)

\* ------------------------------------------------------------ sample texts
F_HbA1c == <<"H","b","A","1","c">>
F_Glucose == <<"G","L","U","C","O","S","E">>
F_LDL == <<"L","D","L">>
F_68 == <<"6",".","8">>
F_Bad == <<"1",".","2",".","3">>
F_Unit == <<"m","g","/","d","L">>
F_Space == <<" ">>
F_Newline == <<"\n">>
F_Tab == <<"\t">>
F_ReceivedOnColon == <<"R","e","c","e","i","v","e","d"," ","O","n",":">>
F_Received == <<"R","e","c","e","i","v","e","d">>
F_OnColon == <<"O","n",":">>
F_Date1 == <<"1","2","/","0","3","/","2","0","2","4">>
F_Date2 == <<"0","5","/","0","6","/","2","0","2","3">>
F_DateBad == <<"3","1","/","0","2","/","2","0","2","4">>

FieldFrags == {F_HbA1c, F_Glucose, F_LDL, F_68, F_Bad, F_Unit, F_Space, F_Newline}

DateFrags == {F_ReceivedOnColon, F_Received, F_OnColon, F_Tab,
              F_Date1, F_Date2, F_DateBad}

ScenarioText ==
    <<"P","a","t","i","e","n","t"," ","R","e","p","o","r","t"," ",
      "H","b","A","1","c"," ","6",".","8"," ","%"," ",
      "G","l","u","c","o","s","e"," ","1","4","2"," ","m","g","/","d","L"," ",
      "R","e","c","e","i","v","e","d"," ","O","n"," ",":"," ",
      "0","1","/","0","9","/","2","0","2","5">>

ScenarioTests == <<"HbA1c", "Glucose", "Hb">>

SeqsUpTo(S, n) == UNION {[1..k -> S] : k \in 0..n}

RECURSIVE Concat(_)
Concat(ps) == IF ps = <<>> THEN <<>> ELSE Head(ps) \o Concat(Tail(ps))

SampleParts == SeqsUpTo(FieldFrags, MaxParts) \cup SeqsUpTo(DateFrags, MaxParts)
                 \cup {<<ScenarioText>>}

TestLists == {ScenarioTests, <<"LDL", "HbA1c">>}

\* ------------------------------------------------------- gene prediction
\* a number written with d decimals
Num(m, d) == Dec(m, d)

LabTrigger(test, low, high) == [test |-> test, low |-> low, high |-> high]

\* GENE_PREDICTION_ENGINE, in the order of the dict
GENE_PREDICTION_ENGINE ==
    <<[condition |-> "Diabetes",
       high_risk_genes |-> <<"TCF7L2", "PPARG", "KCNJ11", "FTO", "IRS1">>,
       moderate_risk_genes |-> <<"ABCC8", "APOE", "LCAT", "IRS2">>,
       lab |-> <<LabTrigger("HbA1c", Num(57, 1), Num(64, 1)),
                 LabTrigger("Glucose", Num(100, 0), Num(126, 0))>>,
       symptoms |-> <<"frequent_urination", "increased_thirst",
                      "unexplained_weight_loss", "fatigue", "blurred_vision">>,
       clinical |-> <<"obesity", "family_history", "sedentary_lifestyle",
                      "hypertension">>],
      [condition |-> "Pancreatic_Cancer",
       high_risk_genes |-> <<"KRAS", "TP53", "CDKN2A", "SMAD4">>,
       moderate_risk_genes |-> <<"BRCA2", "PALB2", "ATM">>,
       lab |-> <<LabTrigger("ALT", Num(40, 0), Num(100, 0)),
                 LabTrigger("AST", Num(40, 0), Num(100, 0)),
                 LabTrigger("Bilirubin", Num(12, 1), Num(30, 1)),
                 LabTrigger("HbA1c", Num(65, 1), Num(100, 1))>>,
       symptoms |-> <<"abdominal_pain", "jaundice", "weight_loss",
                      "loss_of_appetite", "back_pain", "new_onset_diabetes">>,
       clinical |-> <<"smoking", "chronic_pancreatitis", "family_history",
                      "obesity">>],
      [condition |-> "Colorectal_Cancer",
       high_risk_genes |-> <<"APC", "KRAS", "TP53", "MLH1", "MSH2">>,
       moderate_risk_genes |-> <<"MSH6", "PMS2", "BMPR1A", "SMAD4">>,
       lab |-> <<LabTrigger("Hb", Num(0, 0), Num(12, 0)),
                 LabTrigger("CEA", Num(5, 0), Num(20, 0)),
                 LabTrigger("Calcium", Num(105, 1), Num(150, 1))>>,
       symptoms |-> <<"blood_in_stool", "abdominal_pain", "change_in_bowel_habits",
                      "unexplained_weight_loss", "fatigue">>,
       clinical |-> <<"family_history", "inflammatory_bowel_disease",
                      "sedentary_lifestyle", "red_meat_consumption">>],
      [condition |-> "Cardiovascular_Disease",
       high_risk_genes |-> <<"APOE", "PCSK9", "LDLR", "APOB">>,
       moderate_risk_genes |-> <<"CETP", "LPL", "ACE", "AGTR1">>,
       lab |-> <<LabTrigger("Cholesterol", Num(200, 0), Num(240, 0)),
                 LabTrigger("LDL", Num(130, 0), Num(190, 0)),
                 LabTrigger("HDL", Num(0, 0), Num(40, 0))>>,
       symptoms |-> <<"chest_pain", "shortness_of_breath", "palpitations",
                      "swelling_in_legs">>,
       clinical |-> <<"hypertension", "diabetes", "smoking", "obesity",
                      "family_history">>],
      [condition |-> "Liver_Disease",
       high_risk_genes |-> <<"PNPLA3", "TM6SF2", "HFE", "SERPINA1">>,
       moderate_risk_genes |-> <<"MBOAT7", "GCKR", "LYPLAL1">>,
       lab |-> <<LabTrigger("ALT", Num(40, 0), Num(150, 0)),
                 LabTrigger("AST", Num(40, 0), Num(150, 0)),
                 LabTrigger("Bilirubin", Num(12, 1), Num(50, 1)),
                 LabTrigger("ALP", Num(120, 0), Num(300, 0))>>,
       symptoms |-> <<"jaundice", "abdominal_pain", "fatigue", "nausea",
                      "swelling_in_legs">>,
       clinical |-> <<"alcohol_consumption", "obesity", "diabetes",
                      "family_history">>]>>

\* GENE_TREATMENT_IMPLICATIONS[gene]["implication"]
GENE_TREATMENT_IMPLICATIONS ==
    [TCF7L2 |-> "Strongest genetic risk for Type 2 Diabetes",
     KRAS |-> "Oncogene driver in pancreatic cancer",
     APC |-> "Familial adenomatous polyposis risk",
     PCSK9 |-> "High LDL cholesterol, increased cardiovascular risk",
     HFE |-> "Hereditary hemochromatosis risk"]

Range(seq) == {seq[i] : i \in 1..Len(seq)}

\* the elements of seq that satisfy the dict (d.get(x, False)), in order
RECURSIVE Checked(_, _)
Checked(seq, d) ==
    IF seq = <<>> THEN <<>>
    ELSE (IF Head(seq) \in DOMAIN d /\ d[Head(seq)] THEN <<Head(seq)>> ELSE <<>>)
           \o Checked(Tail(seq), d)

\* the rows of the frame whose column test is not NaN
RowsWith(df, test) == {i \in 1..Len(df) : test \in DOMAIN df[i]}

\* df[test].dropna().iloc[-1]
LatestValue(df, test) == df[Max(RowsWith(df, test))][test]

\* f"{test}: {latest_value} (borderline)" and its like
LabDetail(test, value, grade) ==
    [kind |-> "lab", test |-> test, value |-> value, grade |-> grade, matches |-> <<>>]

\* f"Symptoms: {', '.join(matches)}", f"Clinical: ..." and "Age > 50"
ListDetail(kind, matches) ==
    [kind |-> kind, test |-> "", value |-> Dec(0, 0), grade |-> "", matches |-> matches]

\* the points and the trigger line of one lab threshold
LabScore(df, trig) ==
    IF RowsWith(df, trig.test) = {} THEN [points |-> 0, details |-> <<>>]
    ELSE LET latest_value == LatestValue(df, trig.test)
         IN IF DecLeq(trig.low, latest_value) /\ DecLeq(latest_value, trig.high)
            THEN [points |-> 1,
                  details |-> <<LabDetail(trig.test, latest_value, "borderline")>>]
            ELSE IF ~DecLeq(latest_value, trig.high)
                 THEN [points |-> 2,
                       details |-> <<LabDetail(trig.test, latest_value, "elevated")>>]
                 ELSE [points |-> 0, details |-> <<>>]

RECURSIVE LabScores(_, _, _)
\* the loop over data["triggers"]["lab"], from the i-th threshold on
LabScores(df, labs, i) ==
    IF i > Len(labs) THEN [points |-> 0, details |-> <<>>]
    ELSE LET h == LabScore(df, labs[i])
             r == LabScores(df, labs, i + 1)
         IN [points |-> h.points + r.points, details |-> h.details \o r.details]

\* condition_score and trigger_details of one condition
ConditionScore(data, df, symptoms_, clinical_, age_) ==
    LET lab == LabScores(df, data.lab, 1)
        symptom_matches == Checked(data.symptoms, symptoms_)
        clinical_matches == Checked(data.clinical, clinical_)
        aged == data.condition \in {"Colorectal_Cancer", "Cardiovascular_Disease"}
                  /\ age_ > 50
    IN [score |-> lab.points + Len(symptom_matches) + Len(clinical_matches)
                    + (IF aged THEN 1 ELSE 0),
        triggers |-> lab.details
                       \o (IF symptom_matches # <<>>
                           THEN <<ListDetail("Symptoms", symptom_matches)>> ELSE <<>>)
                       \o (IF clinical_matches # <<>>
                           THEN <<ListDetail("Clinical", clinical_matches)>> ELSE <<>>)
                       \o (IF aged THEN <<ListDetail("Age > 50", <<>>)>> ELSE <<>>)]

\* dict.update({gene: level for gene in genes})
Update(d, genes, level) ==
    [g \in DOMAIN d \cup Range(genes) |-> IF g \in Range(genes) THEN level ELSE d[g]]

\* one round of 'for condition, data in GENE_PREDICTION_ENGINE.items()'
PredictCondition(acc, data, df, symptoms_, clinical_, age_) ==
    LET c == ConditionScore(data, df, symptoms_, clinical_, age_)
    IN IF c.score >= 3
       THEN [predicted_genes |->
                Update(Update(acc.predicted_genes, data.high_risk_genes, "high"),
                       data.moderate_risk_genes, "moderate"),
             risk_explanations |->
                Put(acc.risk_explanations, data.condition,
                    [score |-> c.score, triggers |-> c.triggers,
                     confidence |-> IF c.score >= 5 THEN "high" ELSE "moderate"])]
       ELSE acc

RECURSIVE PredictFrom(_, _, _, _, _, _)
PredictFrom(acc, i, df, symptoms_, clinical_, age_) ==
    IF i > Len(GENE_PREDICTION_ENGINE) THEN acc
    ELSE PredictFrom(PredictCondition(acc, GENE_PREDICTION_ENGINE[i], df,
                                      symptoms_, clinical_, age_),
                     i + 1, df, symptoms_, clinical_, age_)

\* predict_genetic_risks(df, symptoms, clinical_factors, age, gender); gender
\* is not read
predict_genetic_risks(df, symptoms_, clinical_, age_) ==
    PredictFrom([predicted_genes |-> EmptyDict, risk_explanations |-> EmptyDict],
                1, df, symptoms_, clinical_, age_)

\* condition.replace("_", " ")
ConditionName ==
    [Diabetes |-> "Diabetes",
     Pancreatic_Cancer |-> "Pancreatic Cancer",
     Colorectal_Cancer |-> "Colorectal Cancer",
     Cardiovascular_Disease |-> "Cardiovascular Disease",
     Liver_Disease |-> "Liver Disease"]

\* the recommended_genes of a condition: its high-risk genes that were predicted
RECURSIVE RecommendedGenes(_, _)
RecommendedGenes(genes, predicted) ==
    IF genes = <<>> THEN <<>>
    ELSE (IF Head(genes) \in DOMAIN predicted
          THEN <<[gene |-> Head(genes),
                  risk_level |-> predicted[Head(genes)],
                  implication |->
                     IF Head(genes) \in DOMAIN GENE_TREATMENT_IMPLICATIONS
                     THEN GENE_TREATMENT_IMPLICATIONS[Head(genes)]
                     ELSE "Genetic risk factor identified"]>>
          ELSE <<>>)
           \o RecommendedGenes(Tail(genes), predicted)

\* the insight of one flagged condition
Insight(data, details, predicted) ==
    [condition |-> ConditionName[data.condition],
     confidence |-> details.confidence,
     triggers |-> details.triggers,
     recommended_genes |-> RecommendedGenes(data.high_risk_genes, predicted),
     actions |->
        IF details.confidence = "high"
        THEN <<<<"Consider genetic testing for", ConditionName[data.condition]>>,
               <<"Consult genetic counselor">>,
               <<"Discuss with relevant specialist">>>>
        ELSE <<<<"Monitor for", ConditionName[data.condition], "development">>,
               <<"Consider genetic testing if symptoms persist">>>>]

RECURSIVE InsightsFrom(_, _, _)
\* 'for condition, details in risk_explanations.items()': the flagged
\* conditions were inserted in the order of the engine
InsightsFrom(i, predicted, explanations) ==
    IF i > Len(GENE_PREDICTION_ENGINE) THEN <<>>
    ELSE LET data == GENE_PREDICTION_ENGINE[i]
         IN (IF data.condition \in DOMAIN explanations
             THEN <<Insight(data, explanations[data.condition], predicted)>>
             ELSE <<>>)
              \o InsightsFrom(i + 1, predicted, explanations)

\* generate_genetic_insights(predicted_genes, risk_explanations)
generate_genetic_insights(predicted, explanations) ==
    InsightsFrom(1, predicted, explanations)

\* ------------------------------------------------------- the page inputs
SymptomKeys ==
    {"frequent_urination", "increased_thirst", "unexplained_weight_loss", "fatigue",
     "abdominal_pain", "jaundice", "blood_in_stool", "change_in_bowel_habits",
     "blurred_vision", "chest_pain", "shortness_of_breath", "palpitations"}

\* the dict 'symptoms' built from the twelve checkboxes
SymptomsOf(w) == [k \in SymptomKeys |-> k \in w.checked]

\* the dict 'clinical_factors' built from the profile widgets; obesity is
\* round(weight / (height/100)^2, 2) >= 30, that is weight/height^2 >= 29.995e-4
ClinicalFactorsOf(w) ==
    [family_history |-> w.family_diabetes \/ w.family_cancer \/ w.family_heart,
     obesity |-> w.weight * 10000000 >= 29995 * w.height * w.height,
     sedentary_lifestyle |-> w.activity \in {"Sedentary", "Light"},
     smoking |-> w.smoking,
     alcohol_consumption |-> w.alcohol = "Regular",
     hypertension |-> FALSE,
     chronic_pancreatitis |-> FALSE,
     inflammatory_bowel_disease |-> FALSE]

\* the widgets as the page first shows them
DefaultWidgets ==
    [age |-> 34, weight |-> 70, height |-> 170, checked |-> {},
     family_diabetes |-> FALSE, family_cancer |-> FALSE, family_heart |-> FALSE,
     smoking |-> FALSE, alcohol |-> "Never", activity |-> "Sedentary"]

SampleWidgets ==
    {DefaultWidgets,
     [DefaultWidgets EXCEPT !.age = 60, !.checked = {"abdominal_pain", "jaundice"},
                            !.family_cancer = TRUE, !.activity = "Active"]}

\* the fourteen names the batch handler asks for
BatchTests ==
    <<"HbA1c", "Glucose", "Hb", "WBC", "Platelet", "ALT", "AST", "ESR", "Calcium",
      "Creatinine", "Bilirubin", "Albumin", "ALP", "Cholesterol">>

T_Aug == <<"H","b","A","1","c"," ","6",".","8","\n","R","e","c","e","i","v","e","d",
           " ","O","n",":"," ","0","1","/","0","8","/","2","0","2","5">>

T_Sep == <<"H","b","A","1","c"," ","5",".","2","\n","R","e","c","e","i","v","e","d",
           " ","O","n"," ",":"," ","0","1","/","0","9","/","2","0","2","5">>

T_AugGlucose == <<"G","l","u","c","o","s","e"," ","9","0"," ","m","g","/","d","L"," ",
                  "R","e","c","e","i","v","e","d"," ","O","n",":",
                  "0","1","/","0","8","/","2","0","2","5">>

T_Undated == <<"H","b","A","1","c","\t","7",".","5","\n",
               "H","e","m","o","g","l","o","b","i","n"," ","1","0",".","5">>

T_NoData == <<"P","a","t","i","e","n","t"," ","R","e","p","o","r","t">>

\* an uploaded file: its name, whether fitz can open it, the text of its pages
PdfFile(name, pdf, pages) == [name |-> name, pdf |-> pdf, pages |-> pages]

SampleFiles ==
    {PdfFile("aug.pdf", "ok", <<T_Aug>>),
     PdfFile("sep.pdf", "ok", <<T_Sep>>),
     PdfFile("aug_glucose.pdf", "ok", <<T_AugGlucose>>),
     PdfFile("undated.pdf", "ok", <<T_Undated>>),
     PdfFile("cover.pdf", "ok", <<T_NoData>>),
     PdfFile("broken.pdf", "corrupt", <<>>)}

\* rows handed to the predictor on its own
SampleRows ==
    {[HbA1c |-> Num(68, 1), Date |-> [y |-> 2025, m |-> 8, d |-> 1]],
     [HbA1c |-> Num(52, 1), ALT |-> Num(120, 0)],
     [Hb |-> Num(105, 1)]}

PredictSymptoms == {"abdominal_pain", "jaundice", "fatigue", "chest_pain"}

PredictClinical == {"family_history", "smoking", "obesity"}

PredictAges == {34, 60}

\* ------------------------------------------------------------------ state
VARIABLES
    parts,               \* the fragments a sampled text is made of
    text,                \* the text handed to extract_lab_values_simple
    tests,               \* the requested field names
    pc,                  \* "start", "returned", "raised" of a single call; "page"
    lab_data,            \* the record a single call returned
    uploaded_files,      \* the files in the uploader
    symptoms,            \* dict of the symptom checkboxes
    clinical_factors,    \* dict of the clinical factors
    age,                 \* the age input
    read_log,            \* names passed to extract_text_from_pdf in the last run
    reported,            \* names for which st.error was shown in the last run
    all_extracted_data,  \* the list built by the last run
    df_all,              \* st.session_state.df_all, a sequence of rows
    predicted_genes,     \* st.session_state.predicted_genes
    risk_explanations,   \* the second result of predict_genetic_risks
    genetic_insights     \* st.session_state.genetic_insights

callVars == <<parts, text, tests, lab_data>>

inputVars == <<symptoms, clinical_factors, age>>

runVars == <<read_log, reported, all_extracted_data>>

sessionVars == <<df_all, predicted_genes, genetic_insights>>

vars == <<parts, text, tests, pc, lab_data, uploaded_files, symptoms,
          clinical_factors, age, read_log, reported, all_extracted_data, df_all,
          predicted_genes, risk_explanations, genetic_insights>>

\* nothing called yet
NoCall ==
    /\ parts = <<>>
    /\ text = <<>>
    /\ tests = <<>>
    /\ lab_data = EmptyDict

\* the page as a new session finds it: default widgets, nothing uploaded,
\* the three session variables at their defaults
FreshPage ==
    /\ uploaded_files = <<>>
    /\ symptoms = SymptomsOf(DefaultWidgets)
    /\ clinical_factors = ClinicalFactorsOf(DefaultWidgets)
    /\ age = DefaultWidgets.age
    /\ read_log = <<>>
    /\ reported = <<>>
    /\ all_extracted_data = <<>>
    /\ df_all = <<>>
    /\ predicted_genes = EmptyDict
    /\ risk_explanations = EmptyDict
    /\ genetic_insights = <<>>

\* ---------------------------------------- the extractor applied to a text
InitExtract ==
    /\ parts \in SampleParts
    /\ text = Concat(parts)
    /\ tests \in TestLists
    /\ pc = "start"
    /\ lab_data = EmptyDict
    /\ FreshPage

\* one call of extract_lab_values_simple(text, tests)
Extract ==
    /\ pc = "start"
    /\ LET r == extract_lab_values_simple(text, tests)
       IN /\ pc' = IF r.raised THEN "raised" ELSE "returned"
          /\ lab_data' = r.lab_data
    /\ UNCHANGED <<parts, text, tests, uploaded_files, inputVars, runVars,
                   sessionVars, risk_explanations>>

NextExtract == Extract

SpecExtract == InitExtract /\ [][NextExtract]_vars

\* ---------------------------------------- the predictor applied to a frame
InitPredict ==
    /\ NoCall
    /\ pc = "start"
    /\ uploaded_files = <<>>
    /\ read_log = <<>>
    /\ reported = <<>>
    /\ all_extracted_data = <<>>
    /\ df_all \in SeqsUpTo(SampleRows, MaxRows)
    /\ \E checked \in SUBSET PredictSymptoms :
          symptoms = [k \in SymptomKeys |-> k \in checked]
    /\ \E factors \in SUBSET PredictClinical :
          clinical_factors = [k \in DOMAIN ClinicalFactorsOf(DefaultWidgets) |->
                                 k \in factors]
    /\ age \in PredictAges
    /\ predicted_genes = EmptyDict
    /\ risk_explanations = EmptyDict
    /\ genetic_insights = <<>>

\* one call of predict_genetic_risks(df, symptoms, clinical_factors, age, gender)
Predict ==
    /\ pc = "start"
    /\ LET r == predict_genetic_risks(df_all, symptoms, clinical_factors, age)
       IN /\ predicted_genes' = r.predicted_genes
          /\ risk_explanations' = r.risk_explanations
    /\ pc' = "returned"
    /\ UNCHANGED <<callVars, uploaded_files, inputVars, runVars, df_all,
                   genetic_insights>>

NextPredict == Predict

SpecPredict == InitPredict /\ [][NextPredict]_vars

\* --------------------------------------------------------- the batch run
\* erroneous variant: the exception of a file that cannot be read is not caught
extract_text_from_pdf_uncaught(file) ==
    IF file.pdf = "corrupt"
    THEN [text |-> <<>>, reported |-> FALSE, raised |-> TRUE]
    ELSE [text |-> Concat(file.pages), reported |-> FALSE, raised |-> FALSE]

\* extract_text_from_pdf(file): the text of all pages; a file that cannot be
\* read is reported with st.error and gives the empty text
extract_text_from_pdf(file) ==
    IF file.pdf = "corrupt"
    THEN [text |-> <<>>, reported |-> TRUE, raised |-> FALSE]
    ELSE [text |-> Concat(file.pages), reported |-> FALSE, raised |-> FALSE]

\* extract_lab_values_simple(text, [the fourteen names]) tabulated over the
\* texts of the sample files (the call is a pure function of the text)
BatchExtract ==
    [t \in {Concat(f.pages) : f \in SampleFiles} |->
        extract_lab_values_simple(t, BatchTests)]

\* one round of 'for file in uploaded_files'; an exception leaving a call
\* would end the run at that file
ProcessFile(acc, file) ==
    IF acc.crashed THEN acc
    ELSE LET r == extract_text_from_pdf(file)
             seen == [acc EXCEPT !.read_log = Append(@, file.name),
                                 !.reported = IF r.reported
                                              THEN Append(@, file.name) ELSE @]
         IN IF r.raised THEN [seen EXCEPT !.crashed = TRUE]
            ELSE IF r.text = <<>> THEN seen
            ELSE LET data == BatchExtract[r.text]
                 IN IF data.raised THEN [seen EXCEPT !.crashed = TRUE]
                    ELSE IF DOMAIN data.lab_data = {} THEN seen
                    ELSE [seen EXCEPT !.all_extracted_data =
                             Append(@, Put(data.lab_data, "Filename", file.name))]

RECURSIVE ProcessFiles(_, _, _)
\* the loop over the uploaded files, from the i-th file on
ProcessFiles(acc, files, i) ==
    IF i > Len(files) THEN acc
    ELSE ProcessFiles(ProcessFile(acc, files[i]), files, i + 1)

\* the state of a run before its first file
RunStart ==
    [crashed |-> FALSE, read_log |-> <<>>, reported |-> <<>>,
     all_extracted_data |-> <<>>]

\* a <= b on dates
DateLeq(a, b) ==
    \/ a.y < b.y
    \/ a.y = b.y /\ a.m < b.m
    \/ a.y = b.y /\ a.m = b.m /\ a.d <= b.d

Dated(rows) == {i \in 1..Len(rows) : "Date" \in DOMAIN rows[i]}

\* erroneous variant: the rows are kept in upload order
SortedByDateUnsorted(rows) == {rows}

\* pd.DataFrame(rows), then, if any row has a Date, sort_values('Date') and
\* reset_index: dated rows by date, rows without a date last in their given
\* order.  The sort is not stable, so rows of equal date come in any order:
\* the set of the frames the call can give.
SortedByDate(rows) ==
    IF Dated(rows) = {} THEN {rows}
    ELSE LET n == Len(rows)
             Orders ==
               {p \in [1..n -> 1..n] :
                  /\ \A i, j \in 1..n : i # j => p[i] # p[j]
                  /\ \A i, j \in 1..n : i < j =>
                        \/ /\ p[i] \in Dated(rows)
                           /\ p[j] \in Dated(rows)
                           /\ DateLeq(rows[p[i]]["Date"], rows[p[j]]["Date"])
                        \/ /\ p[i] \in Dated(rows)
                           /\ p[j] \notin Dated(rows)
                        \/ /\ p[i] \notin Dated(rows)
                           /\ p[j] \notin Dated(rows)
                           /\ p[i] < p[j]}
         IN {[k \in 1..n |-> rows[p[k]]] : p \in Orders}

\* --------------------------------------------------------------- the page
Init ==
    /\ NoCall
    /\ pc = "page"
    /\ FreshPage

\* a rerun of the script without the button shows no messages of a past run
NoRun ==
    /\ read_log' = <<>>
    /\ reported' = <<>>
    /\ all_extracted_data' = <<>>

\* the user adds a file to the uploader
AddFile ==
    /\ pc = "page"
    /\ Len(uploaded_files) < MaxFiles
    /\ \E f \in SampleFiles :
          /\ \A i \in 1..Len(uploaded_files) : uploaded_files[i].name # f.name
          /\ uploaded_files' = Append(uploaded_files, f)
    /\ NoRun
    /\ UNCHANGED <<callVars, pc, inputVars, sessionVars, risk_explanations>>

\* the user removes a file from the uploader
RemoveFile ==
    /\ pc = "page"
    /\ \E i \in 1..Len(uploaded_files) :
          uploaded_files' = SubSeq(uploaded_files, 1, i - 1)
                              \o SubSeq(uploaded_files, i + 1, Len(uploaded_files))
    /\ NoRun
    /\ UNCHANGED <<callVars, pc, inputVars, sessionVars, risk_explanations>>

\* the user changes the profile and symptom widgets
EditProfile ==
    /\ pc = "page"
    /\ \E w \in SampleWidgets :
          /\ symptoms' = SymptomsOf(w)
          /\ clinical_factors' = ClinicalFactorsOf(w)
          /\ age' = w.age
    /\ NoRun
    /\ UNCHANGED <<callVars, pc, uploaded_files, sessionVars, risk_explanations>>

\* erroneous variant: a run that collects no record resets the session variables
RunAnalysisClearing ==
    /\ pc = "page"
    /\ uploaded_files # <<>>
    /\ LET run == ProcessFiles(RunStart, uploaded_files, 1)
       IN /\ read_log' = run.read_log
          /\ reported' = run.reported
          /\ all_extracted_data' = run.all_extracted_data
          /\ IF ~run.crashed /\ run.all_extracted_data # <<>>
             THEN \E df \in SortedByDate(run.all_extracted_data) :
                     LET r == predict_genetic_risks(df, symptoms, clinical_factors, age)
                     IN /\ df_all' = df
                        /\ predicted_genes' = r.predicted_genes
                        /\ risk_explanations' = r.risk_explanations
                        /\ genetic_insights' =
                              generate_genetic_insights(r.predicted_genes,
                                                        r.risk_explanations)
             ELSE /\ df_all' = <<>>
                  /\ predicted_genes' = EmptyDict
                  /\ risk_explanations' = EmptyDict
                  /\ genetic_insights' = <<>>
    /\ UNCHANGED <<callVars, pc, uploaded_files, inputVars>>

\* the button 'Run AI Genetic Risk Analysis' with files in the uploader
RunAnalysis ==
    /\ pc = "page"
    /\ uploaded_files # <<>>
    /\ LET run == ProcessFiles(RunStart, uploaded_files, 1)
       IN /\ read_log' = run.read_log
          /\ reported' = run.reported
          /\ all_extracted_data' = run.all_extracted_data
          /\ IF ~run.crashed /\ run.all_extracted_data # <<>>
             THEN \E df \in SortedByDate(run.all_extracted_data) :
                     LET r == predict_genetic_risks(df, symptoms, clinical_factors, age)
                     IN /\ df_all' = df
                        /\ predicted_genes' = r.predicted_genes
                        /\ risk_explanations' = r.risk_explanations
                        /\ genetic_insights' =
                              generate_genetic_insights(r.predicted_genes,
                                                        r.risk_explanations)
             ELSE UNCHANGED <<sessionVars, risk_explanations>>
    /\ UNCHANGED <<callVars, pc, uploaded_files, inputVars>>

\* the results section is drawn when the stored frame is not empty and there
\* is at least one insight
Displayed == df_all # <<>> /\ genetic_insights # <<>>

Next == AddFile \/ RemoveFile \/ EditProfile \/ RunAnalysis

Spec == Init /\ [][Next]_vars

\* ======================================================= extractor claims
Requested == {tests[i] : i \in 1..Len(tests)}

\* the match of the registered rule of f in the normalised text
RuleMatch(f) == SearchRule(Normalize(text), test_patterns[f])

\* C1: a requested field none of whose patterns matches the normalised text
\* is no key of the returned record (no zero, no empty string in its place).
AbsenceIsAbsence ==
    pc = "returned" =>
        \A f \in Requested :
            (f \notin DOMAIN test_patterns \/ ~RuleMatch(f).found)
                => f \notin DOMAIN lab_data

\* a label that is not followed by whitespace and a number is left out while
\* another requested field is found
AbsenceWitness ==
    /\ pc = "returned"
    /\ parts = <<F_Glucose, F_68, F_HbA1c, F_Bad>>
    /\ tests = ScenarioTests
    /\ DOMAIN lab_data = {}

\* C2: the call returns for every text and field list, it never raises; a
\* labelled date token that is no calendar date leaves the record undated.
NeverRaises ==
    /\ pc # "raised"
    /\ (pc = "returned" /\ SearchDate(Normalize(text)).found
          /\ SearchDate(Normalize(text)).group1 = F_DateBad)
         => "Date" \notin DOMAIN lab_data

\* the call has returned on a capture that is no number
NeverRaisesWitness ==
    /\ pc = "returned"
    /\ parts = <<F_HbA1c, F_Space, F_Bad>>
    /\ "HbA1c" \in Requested
    /\ DOMAIN lab_data = {}

\* the requested, registered fields whose capture is no base-10 number
Unparsed == {f \in Requested \cap DOMAIN test_patterns :
               RuleMatch(f).found /\ ~ParseFloat(RuleMatch(f).group1).ok}

NamedNumber(name, ps) ==
    \E i \in 1..(Len(ps) - 2) :
        /\ ps[i] = name
        /\ ps[i+1] \in {F_Space, F_Newline}
        /\ ps[i+2] = F_68

WhiteFrags == {F_Space, F_Tab, F_Newline}

DateTokens == {F_Date1, F_Date2, F_DateBad}

\* the fragment at j ends the label 'Received On:'
LabelEndsAt(ps, j) ==
    \/ ps[j] = F_ReceivedOnColon
    \/ /\ ps[j] = F_OnColon
       /\ \E r \in 1..(j-2) :
             /\ ps[r] = F_Received
             /\ \A k \in (r+1)..(j-1) : ps[k] \in WhiteFrags

\* the date tokens of ps that follow the label, whitespace apart
LabelledAt(ps) ==
    {i \in 1..Len(ps) :
        /\ ps[i] \in DateTokens
        /\ \E j \in 1..(i-1) :
              /\ LabelEndsAt(ps, j)
              /\ \A k \in (j+1)..(i-1) : ps[k] \in WhiteFrags}

BareAt(ps) == {i \in 1..Len(ps) : ps[i] \in DateTokens} \ LabelledAt(ps)

\* what the sampled date tokens mean, read day/month/year
DayMonthYear(tok) ==
    IF tok = F_Date1 THEN [y |-> 2024, m |-> 3, d |-> 12]
    ELSE [y |-> 2023, m |-> 6, d |-> 5]

\* C5: with one labelled date and bare date-shaped tokens before or after
\* it, the record's date is the labelled one, read day/month/year.
LabelledDateWins ==
    (/\ pc = "returned"
     /\ Cardinality(LabelledAt(parts)) = 1
     /\ BareAt(parts) # {}
     /\ \A i \in LabelledAt(parts) : parts[i] # F_DateBad)
        => /\ "Date" \in DOMAIN lab_data
           /\ \A i \in LabelledAt(parts) : lab_data["Date"] = DayMonthYear(parts[i])

\* a bare 05/06/2023 stands before the labelled 12/03/2024
LabelledDateWitness ==
    /\ pc = "returned"
    /\ parts = <<F_Date2, F_Tab, F_ReceivedOnColon, F_Date1>>
    /\ lab_data["Date"] = [y |-> 2024, m |-> 3, d |-> 12]

\* C8: the end-to-end scenario gives HbA1c 6.8, Glucose 142.0, no Hb and
\* the date 2025-09-01.
ScenarioRecord ==
    (pc = "returned" /\ text = ScenarioText /\ tests = ScenarioTests)
        => /\ DOMAIN lab_data = {"HbA1c", "Glucose", "Date"}
           /\ lab_data["HbA1c"] = [m |-> 68, e |-> 1]
           /\ lab_data["Glucose"] = [m |-> 142, e |-> 0]
           /\ lab_data["Date"] = [y |-> 2025, m |-> 9, d |-> 1]

ScenarioWitness ==
    /\ pc = "returned"
    /\ text = ScenarioText
    /\ tests = ScenarioTests
    /\ "Hb" \notin DOMAIN lab_data

\* C9: normalised text has single spaces as its only whitespace, normalising
\* it again changes nothing, and the record extracted from the text
\* normalised once (what the call computes) equals the record extracted from
\* the text normalised twice (the call on already normalised text).
NormalizeIdempotent ==
    LET n1 == Normalize(text)
    IN /\ \A i \in 1..Len(n1) :
             IsSpace(n1[i]) => n1[i] = " " /\ (i > 1 => ~IsSpace(n1[i-1]))
       /\ Normalize(n1) = n1
       /\ pc = "returned" =>
             extract_lab_values_simple(n1, tests) = Running(lab_data)

\* a newline and a space between label and number were collapsed
NormalizeWitness ==
    /\ pc = "returned"
    /\ parts = <<F_HbA1c, F_Newline, F_Space, F_68>>
    /\ Len(Normalize(text)) = Len(text) - 1
    /\ "HbA1c" \in DOMAIN lab_data
    /\ lab_data["HbA1c"] = [m |-> 68, e |-> 1]

\* ======================================================= batch run claims
Filenames(rows) == [i \in 1..Len(rows) |-> rows[i]["Filename"]]

\* the rows that carry the name of file f
RowsOf(rows, f) == SelectSeq(rows, LAMBDA r : r["Filename"] = f.name)

\* a run has just ended
JustRan == read_log # <<>>

\* C6: the stored series has its dated records in non-decreasing date order
\* and every undated record after every dated one; after a run that stored
\* records it holds that run's records, whatever the upload order.
SeriesOrdered ==
    /\ \A i, j \in 1..Len(df_all) :
          i < j =>
             /\ "Date" \in DOMAIN df_all[j] => "Date" \in DOMAIN df_all[i]
             /\ ("Date" \in DOMAIN df_all[i] /\ "Date" \in DOMAIN df_all[j])
                   => DateLeq(df_all[i]["Date"], df_all[j]["Date"])
    /\ (JustRan /\ all_extracted_data # <<>>)
          => /\ Len(df_all) = Len(all_extracted_data)
             /\ Range(df_all) = Range(all_extracted_data)

\* uploaded undated, September, August; stored August, September, undated
SeriesWitness ==
    /\ JustRan
    /\ Len(uploaded_files) = 3
    /\ uploaded_files[1].name = "undated.pdf"
    /\ uploaded_files[2].name = "sep.pdf"
    /\ uploaded_files[3].name = "aug.pdf"
    /\ Filenames(all_extracted_data) = <<"undated.pdf", "sep.pdf", "aug.pdf">>
    /\ Filenames(df_all) = <<"aug.pdf", "sep.pdf", "undated.pdf">>

\* what a run over the single file f collects
Alone(f) == ProcessFiles(RunStart, <<f>>, 1).all_extracted_data

\* C7: in a run, a file that cannot be converted is read once, reported once
\* and contributes no record; every other file is read once and contributes
\* exactly the record a run over it alone would collect.
FailedFileIsolated ==
    JustRan =>
       /\ read_log = [i \in 1..Len(uploaded_files) |-> uploaded_files[i].name]
       /\ reported = [i \in 1..Len(SelectSeq(uploaded_files,
                                             LAMBDA f : f.pdf = "corrupt")) |->
                        SelectSeq(uploaded_files, LAMBDA f : f.pdf = "corrupt")[i].name]
       /\ \A i \in 1..Len(uploaded_files) :
             LET f == uploaded_files[i]
             IN IF f.pdf = "corrupt"
                THEN RowsOf(all_extracted_data, f) = <<>>
                ELSE /\ RowsOf(all_extracted_data, f) = Alone(f)
                     /\ all_extracted_data # <<>> => RowsOf(df_all, f) = Alone(f)

\* the broken file stood first; the two files after it gave their records
FailedFileWitness ==
    /\ JustRan
    /\ Len(uploaded_files) = 3
    /\ uploaded_files[1].pdf = "corrupt"
    /\ reported = <<"broken.pdf">>
    /\ read_log = <<"broken.pdf", "sep.pdf", "undated.pdf">>
    /\ Filenames(df_all) = <<"sep.pdf", "undated.pdf">>
    /\ "Hb" \in DOMAIN df_all[2]

\* ======================================================= predictor claims
\* the conditions the call flagged (score 3 or more)
Flagged == {i \in 1..Len(GENE_PREDICTION_ENGINE) :
              GENE_PREDICTION_ENGINE[i].condition \in DOMAIN risk_explanations}

\* C10: after the call every high-risk gene of every flagged condition is
\* mapped to 'high' in predicted_genes.
HighRiskStaysHigh ==
    pc = "returned" =>
        \A i \in Flagged :
            \A g \in Range(GENE_PREDICTION_ENGINE[i].high_risk_genes) :
                g \in DOMAIN predicted_genes /\ predicted_genes[g] = "high"

\* ==================================================== stored series claims
\* row i is the most recent record of the stored series that holds the test:
\* no dated row holding the test is later, and row i is dated if any is
MostRecentWith(i, test) ==
    \A j \in RowsWith(df_all, test) :
        "Date" \in DOMAIN df_all[j] =>
            /\ "Date" \in DOMAIN df_all[i]
            /\ DateLeq(df_all[j]["Date"], df_all[i]["Date"])

\* the lab lines among the triggers of the flagged conditions
ScoredLabs ==
    UNION {{risk_explanations[c].triggers[k] :
              k \in {n \in 1..Len(risk_explanations[c].triggers) :
                       risk_explanations[c].triggers[n].kind = "lab"}} :
           c \in DOMAIN risk_explanations}

\* C11: every lab value that was compared with the thresholds comes from the
\* most recent dated record holding that test; an undated record is never
\* taken while a dated record holds the same test.
LatestIsMostRecent ==
    \A d \in ScoredLabs :
        \E i \in RowsWith(df_all, d.test) :
            /\ df_all[i][d.test] = d.value
            /\ MostRecentWith(i, d.test)


\* ================================================== session state claims
\* no file of the list gives a record when it is processed
YieldsNothing(files) == \A i \in 1..Len(files) : Alone(files[i]) = <<>>

\* this step is a run of the analysis (only a run reads files)
RunStep == read_log' # <<>>

\* the three session variables are replaced together from the records that
\* this run collected and the widgets of this run
ReplacedFromRun ==
    LET r == predict_genetic_risks(df_all', symptoms, clinical_factors, age)
    IN /\ all_extracted_data' # <<>>
       /\ df_all' \in SortedByDate(all_extracted_data')
       /\ \A i \in 1..Len(df_all') :
             \E k \in 1..Len(uploaded_files) :
                <<df_all'[i]>> = Alone(uploaded_files[k])
       /\ predicted_genes' = r.predicted_genes
       /\ risk_explanations' = r.risk_explanations
       /\ genetic_insights' =
             generate_genetic_insights(predicted_genes', risk_explanations')

\* C12: a run in which no uploaded file yields a field or a date leaves df_all,
\* predicted_genes and genetic_insights as they were, so what was displayed
\* stays displayed; a run in which some file yields data replaces the three
\* together from that run's records; no other step changes them.
SessionKeptOrReplaced ==
    [][IF RunStep /\ ~YieldsNothing(uploaded_files)
       THEN ReplacedFromRun
       ELSE /\ UNCHANGED sessionVars
            /\ Displayed' = Displayed]_vars

\* a run over files that yield nothing has just ended and the results of an
\* earlier run, over files no longer in the uploader, are still displayed
SessionKeptWitness ==
    /\ JustRan
    /\ YieldsNothing(uploaded_files)
    /\ all_extracted_data = <<>>
    /\ Displayed
    /\ \A i \in 1..Len(df_all) :
          \A k \in 1..Len(uploaded_files) :
             df_all[i]["Filename"] # uploaded_files[k].name

====
